---- MODULE Spec2Model ----
(***************************************************************************)
(* Stock data dashboard: the SQLite row cache (database.py), the fetch /   *)
(* clean / derive pipeline (data_processor.py) and the two front ends that *)
(* decide between serving from the cache and fetching: the HTTP handler    *)
(* GET /data/{symbol} (api.py) and the dashboard's load_stock_data         *)
(* (app.py).                                                               *)
(*                                                                         *)
(* Dates are day numbers; the store keeps them as fixed-width text, the    *)
(* way a timestamp is written to a SQLite DATE column, and ORDER BY date   *)
(* compares that text.  A daily_return is kept as the quotient             *)
(* <<numerator, denominator>> in lowest terms, and so are a moving average *)
(* and the variance that a volatility score is the scaled root of; the     *)
(* quotient 0/0 is the null value of a derived column.                     *)
(* NaN is the missing value of a price column.                             *)
(***************************************************************************)
EXTENDS Integers, Sequences, FiniteSets, TLC

\* Number of trading days the external source knows about.
NumDates == 2

Symbols == {"TCS.NS", "INFY.NS"}
Requests == {"r1", "r2"}
Worker == "r1"
Dates == 9 .. (8 + NumDates)
NaN == 0 - 1

\* The quotes a raw bar of the external source can carry: a well-formed
\* one, one with close = 0 and one with a missing open.
Quotes ==
    { [open |-> 1, high |-> 2, low |-> 1, close |-> 2],
      [open |-> 1, high |-> 1, low |-> 0, close |-> 0],
      [open |-> NaN, high |-> 1, low |-> 1, close |-> 1] }

\* The quotes tried on the pipeline alone: those above, one with another
\* return, one with open = 0 and one with a missing low.
RawQuotes ==
    Quotes \cup
    { [open |-> 2, high |-> 3, low |-> 1, close |-> 1],
      [open |-> 0, high |-> 1, low |-> 0, close |-> 1],
      [open |-> 1, high |-> 1, low |-> NaN, close |-> 1] }

\* The values of the days query parameter that are tried.
DaysParams == {0 - 1, 0, 1, 30}

Min(a, b) == IF a < b THEN a ELSE b

Max(a, b) == IF a > b THEN a ELSE b

RECURSIVE SumSeq(_)
SumSeq(s) == IF s = <<>> THEN 0 ELSE Head(s) + SumSeq(Tail(s))

RECURSIVE ProdSeq(_)
ProdSeq(s) == IF s = <<>> THEN 1 ELSE Head(s) * ProdSeq(Tail(s))

Abs(a) == IF a < 0 THEN 0 - a ELSE a

RECURSIVE Gcd(_, _)
Gcd(a, b) == IF b = 0 THEN a ELSE Gcd(b, a % b)

\* The value of the quotient n / d, d >= 0, in lowest terms: two quotients
\* are the same float exactly when these agree.  n / 0 is an infinity and
\* 0 / 0 the null value.
Quotient(n, d) ==
    IF d = 0 THEN << IF n > 0 THEN 1 ELSE IF n < 0 THEN 0 - 1 ELSE 0, 0 >>
    ELSE LET g == Gcd(Abs(n), d) IN << n \div g, d \div g >>

\* Sequences over S, without repetition, of length 0 .. n.
RECURSIVE Arrangements(_, _)
Arrangements(S, n) ==
    IF n = 0 \/ S = {} THEN { <<>> }
    ELSE { <<>> } \cup
         UNION { { <<x>> \o t : t \in Arrangements(S \ {x}, n - 1) } : x \in S }

Reverse(s) == [ i \in 1 .. Len(s) |-> s[Len(s) + 1 - i] ]

----------------------------------------------------------------------------
(* Dates as the store keeps them *)

\* A date written as zero-padded, fixed-width digits.
DateText(d) == << d \div 10, d % 10 >>

\* pd.to_datetime on a stored date.
ParseDate(t) == t[1] * 10 + t[2]

\* Text comparison, as ORDER BY date and sort_values('date') apply it to
\* stored dates.
TextLess(a, b) == a[1] < b[1] \/ (a[1] = b[1] /\ a[2] < b[2])

NumLess(a, b) == a < b

\* The order of two values of a date column: of text when the column holds
\* stored dates, of datetimes otherwise.
DateLess(a, b, asText) == IF asText THEN TextLess(a, b) ELSE NumLess(a, b)

\* Stable sort of rows by their date column: a row goes after the rows
\* that are smaller and the equal ones that came first.
SortByDate(rows, asText) ==
    LET n == Len(rows)
        Less(a, b) == DateLess(a, b, asText)
        Before(j, i) == \/ Less(rows[j].date, rows[i].date)
                        \/ (~Less(rows[i].date, rows[j].date) /\ j < i)
        Rank(i) == Cardinality({ j \in 1 .. n : Before(j, i) }) + 1
    IN  [ k \in 1 .. n |-> rows[CHOOSE i \in 1 .. n : Rank(i) = k] ]

\* The date column converted by pd.to_datetime, row by row.
ToDatetime(rows) ==
    [ i \in 1 .. Len(rows) |-> [ rows[i] EXCEPT !.date = ParseDate(@) ] ]

\* The date column written out as text, row by row.
DatesAsText(rows) ==
    [ i \in 1 .. Len(rows) |-> [ rows[i] EXCEPT !.date = DateText(@) ] ]

----------------------------------------------------------------------------
(* data_processor.py *)

\* The trading days the source has bars of: all of them for the first
\* symbol, the latest only for a symbol listed since.
DatesOf(symbol) == IF symbol = "TCS.NS" THEN Dates ELSE { 8 + NumDates }

\* The raw bars of a symbol, one per date and quote.
BarsOf(symbol, quotes) ==
    { [ symbol |-> symbol, date |-> d, open |-> q.open, high |-> q.high,
        low |-> q.low, close |-> q.close ] :
        d \in DatesOf(symbol), q \in quotes }

Bars(symbol) == BarsOf(symbol, Quotes)

\* What the external source can answer for each symbol: bars of distinct
\* dates, in any order, possibly none.
FeedTable ==
    [ s \in Symbols |->
        { f \in Arrangements(Bars(s), NumDates) :
            \A i, j \in 1 .. Len(f) : i # j => f[i].date # f[j].date } ]

Feeds(symbol) == FeedTable[symbol]

\* The same over the wider quotes.
RawFeedTable ==
    [ s \in Symbols |->
        { f \in Arrangements(BarsOf(s, RawQuotes), NumDates) :
            \A i, j \in 1 .. Len(f) : i # j => f[i].date # f[j].date } ]

RawFeeds(symbol) == RawFeedTable[symbol]

\* dropna on the four price columns, then close > 0.
clean_data(df) ==
    LET NotNa(row) == /\ row.open # NaN /\ row.high # NaN
                      /\ row.low # NaN /\ row.close # NaN
        Positive(row) == row.close > 0
    IN  SelectSeq(SelectSeq(df, NotNa), Positive)

\* The lengths of the trailing windows.
MaWindow == 7
YearWindow == 252
VolatilityWindow == 20

\* The rows of the trailing window that ends at row i: with min_periods=1
\* a window of fewer rows than its length still gives a result.
Rolling(df, i, window) == SubSeq(df, Max(1, i - window + 1), i)

\* (close - open) / open.
DailyReturn(row) == Quotient(row.close - row.open, row.open)

\* rolling(...).mean() of close.
RollingMean(w) ==
    Quotient(SumSeq([ k \in 1 .. Len(w) |-> w[k].close ]), Len(w))

\* rolling(...).max() of high and rolling(...).min() of low.
RollingMax(w) ==
    CHOOSE m \in { w[k].high : k \in 1 .. Len(w) } :
        \A k \in 1 .. Len(w) : w[k].high <= m

RollingMin(w) ==
    CHOOSE m \in { w[k].low : k \in 1 .. Len(w) } :
        \A k \in 1 .. Len(w) : m <= w[k].low

\* rolling(...).std() of daily_return, as the sample variance (ddof = 1)
\* under the root: the squared deviations over count - 1, brought to the
\* common denominator of the returns.  One point gives 0/0; a return
\* that is infinite (open = 0) leaves no finite deviation, 0/0 again.
RollingVar(w) ==
    LET n == Len(w)
        ret == [ k \in 1 .. n |-> DailyReturn(w[k]) ]
        den == ProdSeq([ k \in 1 .. n |-> ret[k][2] ])
        v == [ k \in 1 .. n |-> ret[k][1] * (den \div ret[k][2]) ]
        sq == [ k \in 1 .. n |-> v[k] * v[k] ]
    IN  IF den = 0 THEN Quotient(0, 0)
        ELSE Quotient(n * SumSeq(sq) - SumSeq(v) * SumSeq(v),
                      n * (n - 1) * den * den)

\* The derived columns of a row.
WithMetrics(df) ==
    [ i \in 1 .. Len(df) |->
        [ symbol |-> df[i].symbol, date |-> df[i].date,
          open |-> df[i].open, high |-> df[i].high, low |-> df[i].low,
          close |-> df[i].close,
          daily_return |-> DailyReturn(df[i]),
          ma_7 |-> RollingMean(Rolling(df, i, MaWindow)),
          week_52_high |-> RollingMax(Rolling(df, i, YearWindow)),
          week_52_low |-> RollingMin(Rolling(df, i, YearWindow)),
          volatility_score |-> RollingVar(Rolling(df, i, VolatilityWindow)) ] ]

calculate_metrics(df) == WithMetrics(SortByDate(df, FALSE))

\* process_stock on the bars the fetch returned.
process_stock(raw) ==
    IF raw = <<>> THEN <<>> ELSE calculate_metrics(clean_data(raw))

----------------------------------------------------------------------------
(* database.py: stock_data maps a symbol to its rows in insertion order *)

\* Mutant: the table has no UNIQUE(symbol, date).
HasKeyUnchecked(db, symbol, date) == FALSE

HasKey(db, symbol, date) ==
    \E i \in 1 .. Len(db[symbol]) : db[symbol][i].date = date

\* One INSERT of the batch: refused by UNIQUE(symbol, date).
RECURSIVE InsertRows(_, _)
InsertRows(db, rows) ==
    IF rows = <<>> THEN [ error |-> "none", db |-> db ]
    ELSE LET row == rows[1]
         IN  IF HasKey(db, row.symbol, row.date)
             THEN [ error |-> "IntegrityError", db |-> db ]
             ELSE InsertRows([ db EXCEPT ![row.symbol] = @ \o << row >> ],
                             Tail(rows))

\* Mutant: the connection is closed with nothing committed.
save_stock_dataUncommitted(db, df) == [ error |-> "none", db |-> db ]

\* Mutant: the rows inserted before the refused one stay.
save_stock_dataNoRollback(db, df) == InsertRows(db, DatesAsText(df))

\* to_sql(if_exists='append') runs the inserts in one transaction, rolled
\* back as a whole when a row is refused.
save_stock_data(db, df) ==
    LET done == InsertRows(db, DatesAsText(df))
    IN  IF done.error = "none" THEN done ELSE [ error |-> done.error, db |-> db ]

\* Mutant: the query has no ORDER BY.
get_all_stock_dataUnordered(db, symbol) == db[symbol]

get_all_stock_data(db, symbol) == SortByDate(db[symbol], TRUE)

\* ORDER BY date DESC LIMIT ?, then sort_values('date'); a negative LIMIT
\* is no limit in SQLite.
get_stock_data(db, symbol, days) ==
    LET desc == Reverse(SortByDate(db[symbol], TRUE))
        limited == IF days < 0 THEN desc
                   ELSE SubSeq(desc, 1, Min(days, Len(desc)))
    IN  SortByDate(limited, TRUE)

\* Mutant: the DELETE removes nothing.
clear_stock_dataNothing(db, symbol) == db

clear_stock_data(db, symbol) == [ db EXCEPT ![symbol] = <<>> ]

----------------------------------------------------------------------------
(* pandas helpers of the handlers *)

\* df.tail(n): the last n rows; for negative n, all but the first -n rows.
DfTail(df, n) ==
    IF n >= 0 THEN SubSeq(df, Len(df) - Min(n, Len(df)) + 1, Len(df))
    ELSE SubSeq(df, Min(0 - n, Len(df)) + 1, Len(df))

----------------------------------------------------------------------------
(* State *)

VARIABLES
    stock_data,   \* the stock_data table: symbol -> rows in insertion order
    pc,           \* where each request stands in its handler
    req,          \* the arguments of each request in progress
    df,           \* the data frame a request holds between fetch and save
    calls,        \* the store and source calls a request has made so far
    returned      \* what the call that ended last gave its caller; once the
                  \* next call is under way only its headline is kept

vars == << stock_data, pc, req, df, calls, returned >>

NoReq == [ kind |-> "none", symbol |-> "none", days |-> 0 ]
NoReturn == [ op |-> "none", symbol |-> "none", days |-> 0, rows |-> <<>>,
              status |-> "none", detail |-> "none", data |-> <<>>,
              calls |-> <<>> ]

\* A log entry: the call made and the number of rows it returned, was given
\* or deleted.
Call(name, rows) == [ call |-> name, rows |-> Len(rows) ]

\* The calls process_stock makes on the bars the fetch returned (lines
\* 170-176): nothing is cleaned when the fetch came back empty.
PipelineCalls(raw) ==
    IF raw = <<>> THEN << Call("fetch_stock_data", raw) >>
    ELSE << Call("fetch_stock_data", raw), Call("clean_data", clean_data(raw)) >>

\* One answer of the source for each way process_stock can turn out (the
\* bars counted, the rows cleaning leaves, the derived frame): answers that
\* differ only in the order of the bars, or in what is wrong with a bar
\* that is dropped, take a handler through the same steps.
FetchCaseTable ==
    [ s \in Symbols |->
        LET Outcome(f) == << PipelineCalls(f), process_stock(f) >>
        IN  { CHOOSE f \in Feeds(s) : Outcome(f) = o :
                o \in { Outcome(g) : g \in Feeds(s) } } ]

FetchCases(symbol) == FetchCaseTable[symbol]

AllIdle == \A r \in Requests : pc[r] = "idle"

\* Batches of metric rows of one symbol, distinct dates, in any order.
BatchTable ==
    [ s \in Symbols |->
        { WithMetrics(f) : f \in { g \in Feeds(s) : clean_data(g) = g } } ]

Batches(symbol) == BatchTable[symbol]

Init ==
    /\ stock_data = [ s \in Symbols |-> <<>> ]
    /\ pc = [ r \in Requests |-> "idle" ]
    /\ req = [ r \in Requests |-> NoReq ]
    /\ df = [ r \in Requests |-> <<>> ]
    /\ calls = [ r \in Requests |-> <<>> ]
    /\ returned = NoReturn

\* What is remembered of a return while the next call is under way.
Headline(ret) ==
    [ ret EXCEPT !.days = 0, !.rows = <<>>, !.data = <<>>, !.calls = <<>> ]

\* What load_stock_data's caller shows: app.py line 194 reports an empty
\* frame as "No data available".
Shown(frame) == IF frame = <<>> THEN "no_data" ELSE "ok"

\* The request goes on to its next step.
Continue(r, next, request, frame, log) ==
    /\ pc' = [ pc EXCEPT ![r] = next ]
    /\ req' = [ req EXCEPT ![r] = request ]
    /\ df' = [ df EXCEPT ![r] = frame ]
    /\ calls' = [ calls EXCEPT ![r] = log ]
    /\ returned' = Headline(returned)

\* The request ends: its caller gets status, detail and data.
Return(r, request, status, detail, data, log) ==
    /\ pc' = [ pc EXCEPT ![r] = "idle" ]
    /\ req' = [ req EXCEPT ![r] = NoReq ]
    /\ df' = [ df EXCEPT ![r] = <<>> ]
    /\ calls' = [ calls EXCEPT ![r] = <<>> ]
    /\ returned' = [ op |-> request.kind, symbol |-> request.symbol,
                     days |-> request.days, rows |-> <<>>, status |-> status,
                     detail |-> detail, data |-> data, calls |-> log ]

\* A call made on the store itself returns.
StoreReturn(op, symbol, days, rows, status, data) ==
    /\ returned' = [ op |-> op, symbol |-> symbol, days |-> days, rows |-> rows,
                     status |-> status, detail |-> "none", data |-> data,
                     calls |-> <<>> ]
    /\ UNCHANGED << pc, req, df, calls >>

----------------------------------------------------------------------------
(* api.py: GET /data/{symbol}?days=N *)

\* Mutant: the cache is never found empty.
CacheMissNever(cached) == FALSE

\* Mutant: the cache is always taken to be empty.
CacheMissAlways(cached) == TRUE

\* api.py line 71, app.py line 38: if df.empty
CacheMiss(cached) == cached = <<>>

\* Mutant: the handler never finds the frame empty.
NotFoundNever(frame) == FALSE

\* api.py lines 73 and 79: nothing to save, HTTPException(404)
NotFound(frame) == frame = <<>>

\* api.py lines 82-86 on a frame read from the store (dates are text).
ApiRecordsStored(frame, days) == DatesAsText(ToDatetime(DfTail(frame, days)))

\* api.py lines 82-86 on a frame that process_stock returned.
ApiRecordsFresh(frame, days) == DatesAsText(DfTail(frame, days))

\* Lines 69-71 and, on a hit, 79-92.
ApiRead(r, symbol, days) ==
    LET request == [ kind |-> "data", symbol |-> symbol, days |-> days ]
        cached == get_all_stock_data(stock_data, symbol)
        log == << Call("get_all_stock_data", cached) >>
    IN  /\ pc[r] = "idle"
        /\ UNCHANGED stock_data
        /\ IF CacheMiss(cached)
           THEN Continue(r, "api_fetch", request, <<>>, log)
           ELSE Return(r, request, "200", "none",
                       ApiRecordsStored(cached, days), log)

\* Line 72 and, when nothing is left to save, 79-80.
ApiFetch(r, raw) ==
    LET processed == process_stock(raw)
        log == calls[r] \o PipelineCalls(raw)
    IN  /\ pc[r] = "api_fetch"
        /\ UNCHANGED stock_data
        /\ IF NotFound(processed)
           THEN Return(r, req[r], "404", req[r].symbol, <<>>, log)
           ELSE Continue(r, "api_save", req[r], processed, log)

\* Lines 73-77, then 82-92; an exception of the save ends in lines 96-97.
ApiSave(r) ==
    LET saved == save_stock_data(stock_data, df[r])
        log == Append(calls[r], Call("save_stock_data", df[r]))
    IN  /\ pc[r] = "api_save"
        /\ stock_data' = saved.db
        /\ IF saved.error = "none"
           THEN Return(r, req[r], "200", "none",
                       ApiRecordsFresh(df[r], req[r].days), log)
           ELSE Return(r, req[r], "500", saved.error, <<>>, log)

----------------------------------------------------------------------------
(* app.py: load_stock_data(symbol, refresh) *)

\* Lines 25-27: the refresh branch asks the external source first.
RefreshStart(r, symbol) ==
    /\ pc[r] = "idle"
    /\ UNCHANGED stock_data
    /\ Continue(r, "refresh_fetch",
                [ kind |-> "refresh", symbol |-> symbol, days |-> 0 ], <<>>, <<>>)

\* Lines 27-28: the source answers; with nothing to save the branch falls
\* through to line 36.
RefreshFetch(r, raw) ==
    LET processed == process_stock(raw)
        log == calls[r] \o PipelineCalls(raw)
    IN  /\ pc[r] = "refresh_fetch"
        /\ UNCHANGED stock_data
        /\ IF processed # <<>>
           THEN Continue(r, "refresh_clear", req[r], processed, log)
           ELSE Continue(r, "load_read", req[r], <<>>, log)

\* Line 29.
RefreshClear(r) ==
    /\ pc[r] = "refresh_clear"
    /\ stock_data' = clear_stock_data(stock_data, req[r].symbol)
    /\ Continue(r, "refresh_save", req[r], df[r],
                Append(calls[r],
                       Call("clear_stock_data", stock_data[req[r].symbol])))

\* Lines 30-34; nothing catches an exception of the save.
RefreshSave(r) ==
    LET saved == save_stock_data(stock_data, df[r])
        log == Append(calls[r], Call("save_stock_data", df[r]))
    IN  /\ pc[r] = "refresh_save"
        /\ stock_data' = saved.db
        /\ IF saved.error = "none"
           THEN Return(r, req[r], Shown(df[r]), "none", df[r], log)
           ELSE Return(r, req[r], saved.error, "none", <<>>, log)

\* Lines 36-38 and, on a hit, 46-50.
ReadCache(r, request, log0) ==
    LET cached == get_all_stock_data(stock_data, request.symbol)
        log == Append(log0, Call("get_all_stock_data", cached))
    IN  /\ UNCHANGED stock_data
        /\ IF CacheMiss(cached)
           THEN Continue(r, "load_fetch", request, <<>>, log)
           ELSE Return(r, request, Shown(cached), "none", ToDatetime(cached), log)

\* load_stock_data(symbol, refresh=False) from its first line.
LoadRead(r, symbol) ==
    /\ pc[r] = "idle"
    /\ ReadCache(r, [ kind |-> "getSeries", symbol |-> symbol, days |-> 0 ], <<>>)

\* The refresh branch fell through to line 36.
RefreshFallThrough(r) ==
    /\ pc[r] = "load_read"
    /\ ReadCache(r, req[r], calls[r])

\* Lines 39-41 and, with nothing to save, line 50.
LoadFetch(r, raw) ==
    LET processed == process_stock(raw)
        log == calls[r] \o PipelineCalls(raw)
    IN  /\ pc[r] = "load_fetch"
        /\ UNCHANGED stock_data
        /\ IF processed # <<>>
           THEN Continue(r, "load_save", req[r], processed, log)
           ELSE Return(r, req[r], Shown(processed), "none", processed, log)

\* Lines 42-45 and 50.
LoadSave(r) ==
    LET saved == save_stock_data(stock_data, df[r])
        log == Append(calls[r], Call("save_stock_data", df[r]))
    IN  /\ pc[r] = "load_save"
        /\ stock_data' = saved.db
        /\ IF saved.error = "none"
           THEN Return(r, req[r], Shown(df[r]), "none", df[r], log)
           ELSE Return(r, req[r], saved.error, "none", <<>>, log)

\* The script run or the serving process is stopped where it stands.
Kill(r) ==
    /\ pc[r] # "idle"
    /\ UNCHANGED stock_data
    /\ Return(r, req[r], "killed", pc[r], <<>>, calls[r])

----------------------------------------------------------------------------
(* database.py called directly *)

AppendRows(symbol, batch) ==
    LET saved == save_stock_data(stock_data, batch)
    IN  /\ stock_data' = saved.db
        /\ StoreReturn("appendRows", symbol, 0, batch,
                       IF saved.error = "none" THEN "ok" ELSE saved.error, <<>>)

ClearRows(symbol) ==
    /\ stock_data' = clear_stock_data(stock_data, symbol)
    /\ StoreReturn("clearRows", symbol, 0, <<>>, "ok", <<>>)

GetAllRows(symbol) ==
    /\ UNCHANGED stock_data
    /\ StoreReturn("getAllRows", symbol, 0, <<>>, "ok",
                   get_all_stock_data(stock_data, symbol))

GetRecentRows(symbol, days) ==
    /\ UNCHANGED stock_data
    /\ StoreReturn("getRecentRows", symbol, days, <<>>, "ok",
                   get_stock_data(stock_data, symbol, days))

----------------------------------------------------------------------------
(* Specifications *)

\* A step of a request in progress.
Step(r) ==
    \/ pc[r] = "api_fetch" /\ \E raw \in FetchCases(req[r].symbol) : ApiFetch(r, raw)
    \/ ApiSave(r)
    \/ pc[r] = "refresh_fetch" /\ \E raw \in FetchCases(req[r].symbol) : RefreshFetch(r, raw)
    \/ RefreshClear(r)
    \/ RefreshSave(r)
    \/ RefreshFallThrough(r)
    \/ pc[r] = "load_fetch" /\ \E raw \in FetchCases(req[r].symbol) : LoadFetch(r, raw)
    \/ LoadSave(r)
    \/ Kill(r)

\* A request arrives and takes its first step.
Arrive(r) ==
    \/ \E s \in Symbols, n \in DaysParams : ApiRead(r, s, n)
    \/ \E s \in Symbols : RefreshStart(r, s)
    \/ \E s \in Symbols : LoadRead(r, s)

StoreCall ==
    \/ \E s \in Symbols : \E batch \in Batches(s) : AppendRows(s, batch)
    \/ \E s \in Symbols : ClearRows(s)
    \/ \E s \in Symbols : GetAllRows(s)
    \/ \E s \in Symbols, n \in DaysParams : GetRecentRows(s, n)

\* Requests are handled one at a time, each to completion, by one worker.
Next ==
    \/ AllIdle /\ Arrive(Worker)
    \/ AllIdle /\ StoreCall
    \/ Step(Worker)

Spec == Init /\ [][Next]_vars

\* The API server runs its handlers on a pool of threads: two GET /data
\* requests interleave at their store and source calls, while the rows of a
\* symbol may be cleared from outside.
NextConcurrent ==
    \/ \E r \in Requests : \E s \in Symbols, n \in DaysParams : ApiRead(r, s, n)
    \/ \E r \in Requests :
          pc[r] = "api_fetch" /\ \E raw \in FetchCases(req[r].symbol) : ApiFetch(r, raw)
    \/ \E r \in Requests : ApiSave(r)
    \/ \E s \in Symbols : ClearRows(s)

SpecConcurrent == Init /\ [][NextConcurrent]_vars

\* process_stock on its own, from the bars fetch_stock_data returned
\* (line 170) to the derived frame: the frame is in df, the position in pc.
InitPipeline ==
    /\ stock_data = [ s \in Symbols |-> <<>> ]
    /\ pc = [ r \in Requests |-> IF r = Worker THEN "fetched" ELSE "idle" ]
    /\ \E s \in Symbols :
          /\ req = [ r \in Requests |->
                       IF r = Worker
                       THEN [ kind |-> "process_stock", symbol |-> s, days |-> 0 ]
                       ELSE NoReq ]
          /\ \E raw \in RawFeeds(s) :
                df = [ r \in Requests |-> IF r = Worker THEN raw ELSE <<>> ]
    /\ calls = [ r \in Requests |->
                  IF r = Worker THEN << Call("fetch_stock_data", df[r]) >>
                  ELSE <<>> ]
    /\ returned = NoReturn

\* Lines 172-173: nothing fetched, nothing to clean or derive.
ProcessEmpty(r) ==
    /\ pc[r] = "fetched" /\ df[r] = <<>>
    /\ pc' = [ pc EXCEPT ![r] = "processed" ]
    /\ UNCHANGED << stock_data, req, df, calls, returned >>

\* Line 175.
ProcessClean(r) ==
    /\ pc[r] = "fetched" /\ df[r] # <<>>
    /\ pc' = [ pc EXCEPT ![r] = "cleaned" ]
    /\ df' = [ df EXCEPT ![r] = clean_data(df[r]) ]
    /\ calls' = [ calls EXCEPT ![r] = @ \o << Call("clean_data", df'[r]) >> ]
    /\ UNCHANGED << stock_data, req, returned >>

\* Line 176.
ProcessDerive(r) ==
    /\ pc[r] = "cleaned"
    /\ pc' = [ pc EXCEPT ![r] = "processed" ]
    /\ df' = [ df EXCEPT ![r] = calculate_metrics(df[r]) ]
    /\ calls' = [ calls EXCEPT ![r] = @ \o << Call("calculate_metrics", df'[r]) >> ]
    /\ UNCHANGED << stock_data, req, returned >>

NextPipeline ==
    \/ ProcessEmpty(Worker)
    \/ ProcessClean(Worker)
    \/ ProcessDerive(Worker)

SpecPipeline == InitPipeline /\ [][NextPipeline]_vars

----------------------------------------------------------------------------
(* Vocabulary of the properties *)

\* The step ends a call: nothing is in progress after it.
Returns == \A r \in Requests : pc'[r] = "idle"

Made(log, name) == \E i \in 1 .. Len(log) : log[i].call = name

\* The log has an entry of that name with that many rows.
MadeWith(log, name, n) ==
    \E i \in 1 .. Len(log) : log[i].call = name /\ log[i].rows = n

\* Some entry of the first name comes before some entry of the second.
MadeBefore(log, first, second) ==
    \E i, j \in 1 .. Len(log) :
        i < j /\ log[i].call = first /\ log[j].call = second

\* The log begins with a cache read that found nothing and a fetch that
\* returned no bars.
EmptyCacheEmptyFetch(log) ==
    /\ Len(log) >= 2
    /\ log[1] = [ call |-> "get_all_stock_data", rows |-> 0 ]
    /\ log[2] = [ call |-> "fetch_stock_data", rows |-> 0 ]

\* The (date, close) pairs of rows whose dates are text.
StoredPairs(rows) == { << ParseDate(rows[i].date), rows[i].close >> : i \in 1 .. Len(rows) }

\* The (date, close) pairs of rows whose dates are day numbers.
Pairs(rows) == { << rows[i].date, rows[i].close >> : i \in 1 .. Len(rows) }

\* Rows with text dates in strictly ascending date order.
AscendingByDate(rows) ==
    \A i \in 1 .. Len(rows) - 1 : ParseDate(rows[i].date) < ParseDate(rows[i + 1].date)

----------------------------------------------------------------------------
(* C1 *)

\* C1: GET /data on a symbol whose cache is empty and whose fetch returns no
\* bars ends in 404 with the symbol in its detail, makes no write call, and
\* neither of its steps changes the stored rows of any symbol.
C1_NoDataIsNotFound ==
    /\ [](returned.op = "data" /\ EmptyCacheEmptyFetch(returned.calls)
            => /\ returned.status = "404"
               /\ returned.detail = returned.symbol
               /\ ~Made(returned.calls, "save_stock_data")
               /\ stock_data[returned.symbol] = <<>>)
    /\ [][ \/ (pc[Worker] = "idle" /\ pc'[Worker] = "api_fetch")
           \/ (pc[Worker] = "api_fetch" /\ returned'.status = "404")
           => stock_data' = stock_data ]_vars

C1_Witness ==
    /\ returned.op = "data"
    /\ returned.status = "404"
    /\ returned.calls = << [ call |-> "get_all_stock_data", rows |-> 0 ],
                           [ call |-> "fetch_stock_data", rows |-> 0 ] >>
    /\ \E s \in Symbols : stock_data[s] # <<>>

----------------------------------------------------------------------------
(* C2 *)

RefreshReturned(ret) == ret.op = "refresh" /\ ret.status \in { "ok", "no_data" }

GetSeriesReturned(ret) == ret.op = "getSeries" /\ ret.status \in { "ok", "no_data" }

\* C2 as stated: whatever a refresh returned, the getSeries that follows it
\* on the same symbol returns the same series (when that getSeries took
\* several steps only the headline of the refresh is left to compare: both
\* series empty, or both not).
C2_AnyRefreshThenGetSeries ==
    [][ /\ Returns
        /\ RefreshReturned(returned)
        /\ GetSeriesReturned(returned')
        /\ returned'.symbol = returned.symbol
        => IF pc[Worker] = "idle"
           THEN returned'.data = returned.data
           ELSE returned'.status = returned.status ]_vars

\* C2, amended: once a refresh has returned a non-empty series, the cache
\* holds exactly the rows of that series, and the getSeries that follows it
\* on the same symbol returns that series.
C2_RefreshThenGetSeries ==
    /\ [](AllIdle /\ returned.op = "refresh" /\ returned.status = "ok"
            => get_all_stock_data(stock_data, returned.symbol)
                   = DatesAsText(returned.data))
    /\ [][ /\ AllIdle
           /\ Returns
           /\ returned.op = "refresh" /\ returned.status = "ok"
           /\ returned'.op = "getSeries"
           /\ returned'.symbol = returned.symbol
           => /\ returned'.status = "ok"
              /\ returned'.data = returned.data ]_vars

\* A refresh has returned after clearing more rows than it fetched: a row
\* stored before the clear is on a date the fresh series does not have.
C2_Witness ==
    /\ AllIdle
    /\ returned.op = "refresh"
    /\ returned.status = "ok"
    /\ \E i \in 1 .. Len(returned.calls) :
          /\ returned.calls[i].call = "clear_stock_data"
          /\ returned.calls[i].rows > Len(returned.data)

----------------------------------------------------------------------------
(* C3 *)

\* C3: in every reachable state the stored rows hold at most one row per
\* (symbol, date): the rows kept under a symbol carry that symbol and
\* pairwise different dates.
C3_UniqueSymbolDate ==
    \A s \in Symbols :
        \A i, j \in 1 .. Len(stock_data[s]) :
            /\ stock_data[s][i].symbol = s
            /\ i # j => stock_data[s][i].date # stock_data[s][j].date

\* A batch with a stored key was refused while the symbol holds several rows.
C3_Witness ==
    /\ returned.op = "appendRows"
    /\ returned.status = "IntegrityError"
    /\ Len(stock_data[returned.symbol]) >= 2

----------------------------------------------------------------------------
(* C4 *)

\* C4: an appendRows whose batch holds a (symbol, date) key that is already
\* stored ends in IntegrityError, the store's own error for a uniqueness
\* violation, and leaves the stored rows of every symbol as they were.
C4_DuplicateAppendRefused ==
    [][ /\ Returns
        /\ returned'.op = "appendRows"
        /\ \E i \in 1 .. Len(returned'.rows) :
              HasKey(stock_data, returned'.symbol, DateText(returned'.rows[i].date))
        => /\ returned'.status = "IntegrityError"
           /\ stock_data' = stock_data ]_vars

\* A refused batch whose first row was new: its insert was rolled back.
C4_Witness ==
    /\ returned.op = "appendRows"
    /\ returned.status = "IntegrityError"
    /\ Len(returned.rows) >= 2
    /\ ~HasKey(stock_data, returned.symbol, DateText(returned.rows[1].date))
    /\ HasKey(stock_data, returned.symbol, DateText(returned.rows[2].date))

----------------------------------------------------------------------------
(* C5 *)

\* The refresh was stopped between its clear and its save.
StoppedAfterClear(ret) ==
    ret.op = "refresh" /\ ret.status = "killed" /\ ret.detail = "refresh_save"

\* A getSeries (of the dashboard or of the API) on the symbol ran to its end.
GetSeriesEnded(ret, symbol) ==
    /\ ret.op \in { "getSeries", "data" }
    /\ ret.symbol = symbol
    /\ ret.status # "killed"

\* C5 as stated: after a refresh stopped between clear and save the cache of
\* the symbol is empty, and the next getSeries on it, when its fetch returns
\* bars, leaves the cache non-empty.
C5_RepairWheneverBarsFetched ==
    /\ [](StoppedAfterClear(returned) => stock_data[returned.symbol] = <<>>)
    /\ [][ /\ Returns
           /\ StoppedAfterClear(returned)
           /\ GetSeriesEnded(returned', returned.symbol)
           /\ \E i \in 1 .. Len(returned'.calls) :
                 /\ returned'.calls[i].call = "fetch_stock_data"
                 /\ returned'.calls[i].rows > 0
           => stock_data'[returned.symbol] # <<>> ]_vars

\* C5, amended: after a refresh stopped between clear and save the cache of
\* the symbol is empty; the next getSeries on it reads the empty cache and
\* fetches, and when at least one fetched bar survives cleaning it saves the
\* derived rows, returns them, and leaves the cache holding exactly them.
C5_RepairAfterStoppedRefresh ==
    /\ [](StoppedAfterClear(returned) => stock_data[returned.symbol] = <<>>)
    /\ [][ /\ Returns
           /\ StoppedAfterClear(returned)
           /\ GetSeriesEnded(returned', returned.symbol)
           => /\ Len(returned'.calls) >= 2
              /\ returned'.calls[1] = [ call |-> "get_all_stock_data", rows |-> 0 ]
              /\ returned'.calls[2].call = "fetch_stock_data"
              /\ \A k \in 1 .. NumDates :
                    MadeWith(returned'.calls, "clean_data", k)
                    => /\ returned'.status \in { "ok", "200" }
                       /\ MadeWith(returned'.calls, "save_stock_data", k)
                       /\ Len(stock_data'[returned.symbol]) = k
                       /\ returned'.op = "getSeries"
                           => /\ Len(returned'.data) = k
                              /\ get_all_stock_data(stock_data', returned.symbol)
                                     = DatesAsText(returned'.data) ]_vars

\* The refresh was stopped after its clear, and the getSeries that came next
\* has fetched and derived rows and is about to save them.
C5_Witness ==
    /\ StoppedAfterClear(returned)
    /\ pc[Worker] = "load_save"
    /\ req[Worker].kind = "getSeries"
    /\ req[Worker].symbol = returned.symbol
    /\ Len(df[Worker]) >= 2

----------------------------------------------------------------------------
(* C6 *)

\* C6: a GET /data request that missed the cache and went on to save what it
\* fetched returns 200, also when another request saved the same keys first.
C6_SecondWriterReturnsSeries ==
    returned.op = "data" /\ Made(returned.calls, "save_stock_data")
    => returned.status = "200"

----------------------------------------------------------------------------
(* C7 *)

\* C7: a getSeries (of the dashboard or of the API) that reads a non-empty
\* cache makes no other call, changes no stored row and returns what the
\* cache holds; a getSeries that follows a successful one on the same symbol
\* with the same arguments returns the same.
C7_CacheHitIsReadOnly ==
    /\ [](/\ returned.op \in { "getSeries", "data" }
           /\ returned.status # "killed"
           /\ Len(returned.calls) >= 1
           /\ returned.calls[1].call = "get_all_stock_data"
           /\ returned.calls[1].rows > 0
           => /\ Len(returned.calls) = 1
              /\ returned.status \in { "ok", "200" })
    /\ [][ /\ Returns
           /\ returned'.op \in { "getSeries", "data" }
           /\ returned'.status # "killed"
           /\ stock_data[returned'.symbol] # <<>>
           => /\ stock_data' = stock_data
              /\ returned'.op = "getSeries"
                  => returned'.data
                       = ToDatetime(get_all_stock_data(stock_data, returned'.symbol)) ]_vars
    /\ [][ /\ AllIdle
           /\ Returns
           /\ returned.op \in { "getSeries", "data" }
           /\ returned.status \in { "ok", "200" }
           /\ returned'.op = returned.op
           /\ returned'.symbol = returned.symbol
           /\ returned'.days = returned.days
           => /\ returned'.status = returned.status
              /\ returned'.data = returned.data ]_vars

\* A getSeries has returned two rows from the cache after one read.
C7_Witness ==
    /\ returned.op = "getSeries"
    /\ returned.status = "ok"
    /\ returned.calls = << [ call |-> "get_all_stock_data", rows |-> 2 ] >>
    /\ Len(returned.data) = 2

----------------------------------------------------------------------------
(* C8 *)

\* A refresh ran to its end; its whole log is at hand.
RefreshEnded == AllIdle /\ returned.op = "refresh" /\ returned.status # "killed"

\* C8 as stated: every refresh fetches first and then calls clearRows before
\* appendRows.
C8_EveryRefreshClearsThenAppends ==
    RefreshEnded
    => /\ returned.calls[1].call = "fetch_stock_data"
       /\ MadeBefore(returned.calls, "clear_stock_data", "save_stock_data")

\* C8, amended: every refresh fetches first.  When that fetch leaves rows
\* after cleaning, the refresh clears the symbol and then saves, in that
\* order and nothing else; when it leaves none, the refresh clears nothing
\* and saves only what a second fetch brought after the cache read empty.
\* With requests handled one at a time the save of a refresh is never
\* refused for a key that is already stored.
C8_RefreshClearsBeforeAppend ==
    RefreshEnded
    => /\ returned.calls[1].call = "fetch_stock_data"
       /\ returned.status # "IntegrityError"
       /\ IF \E k \in 1 .. NumDates :
                Len(returned.calls) >= 2
                /\ returned.calls[2] = [ call |-> "clean_data", rows |-> k ]
          THEN /\ Len(returned.calls) = 4
               /\ returned.calls[3].call = "clear_stock_data"
               /\ returned.calls[4].call = "save_stock_data"
          ELSE /\ ~Made(returned.calls, "clear_stock_data")
               /\ Made(returned.calls, "save_stock_data")
                   => /\ MadeWith(returned.calls, "get_all_stock_data", 0)
                      /\ MadeBefore(returned.calls, "get_all_stock_data",
                                    "save_stock_data")

\* A refresh cleared rows that were stored and then saved without refusal.
C8_Witness ==
    /\ RefreshEnded
    /\ returned.status = "ok"
    /\ Len(returned.calls) = 4
    /\ returned.calls[3].call = "clear_stock_data"
    /\ returned.calls[3].rows >= 1
    /\ returned.calls[4].call = "save_stock_data"

----------------------------------------------------------------------------
(* C9 *)

\* The last n rows of a frame, none when n is not positive.
LatestRows(frame, n) ==
    SubSeq(frame, Len(frame) - Max(0, Min(n, Len(frame))) + 1, Len(frame))

\* C9: for every limit N, zero, negative and larger than the row count
\* included, getRecentRows and GET /data?days=N return the min(N, row count)
\* rows with the latest dates, in ascending date order.
C9_RecentRowsAreTheLatest ==
    /\ returned.op = "getRecentRows"
       => returned.data
            = LatestRows(get_all_stock_data(stock_data, returned.symbol),
                         returned.days)
    /\ returned.op = "data" /\ returned.status = "200"
       => /\ returned.data
                = LatestRows(get_all_stock_data(stock_data, returned.symbol),
                             returned.days)
          /\ AscendingByDate(returned.data)

----------------------------------------------------------------------------
(* C10 *)

\* C10: rows of distinct dates appended to a symbol that had none are read
\* back by getAllRows as the same (date, close) pairs, ascending by date,
\* whatever their insertion order; getAllRows on a symbol without rows
\* returns the empty sequence.
C10_AppendThenReadAll ==
    /\ [](returned.op = "getAllRows" /\ stock_data[returned.symbol] = <<>>
            => returned.data = <<>>)
    /\ [][ /\ Returns
           /\ returned.op = "appendRows" /\ returned.status = "ok"
           /\ Len(stock_data[returned.symbol]) = Len(returned.rows)
           /\ returned'.op = "getAllRows"
           /\ returned'.symbol = returned.symbol
           => /\ StoredPairs(returned'.data) = Pairs(returned.rows)
              /\ Len(returned'.data) = Len(returned.rows)
              /\ AscendingByDate(returned'.data) ]_vars

\* getAllRows has returned, in date order, rows that were inserted latest
\* date first.
C10_Witness ==
    /\ returned.op = "getAllRows"
    /\ Len(returned.data) >= 2
    /\ Len(stock_data[returned.symbol]) >= 2
    /\ TextLess(stock_data[returned.symbol][2].date,
                stock_data[returned.symbol][1].date)

----------------------------------------------------------------------------
(* C11 *)

\* A derived value is null when it is the quotient 0/0.
IsNull(q) == q = Quotient(0, 0)

\* The frame process_stock has derived from at least one cleaned bar.
Derived ==
    /\ pc[Worker] = "processed"
    /\ Made(calls[Worker], "calculate_metrics")
    /\ df[Worker] # <<>>

\* C11: every row of a frame derived from a non-empty cleaned series, the
\* first row included, has a non-null daily_return, ma_7, week_52_high,
\* week_52_low and volatility_score.
C11_EveryMetricDefined ==
    Derived =>
        \A i \in 1 .. Len(df[Worker]) :
            /\ ~IsNull(df[Worker][i].daily_return)
            /\ ~IsNull(df[Worker][i].ma_7)
            /\ df[Worker][i].week_52_high # NaN
            /\ df[Worker][i].week_52_low # NaN
            /\ ~IsNull(df[Worker][i].volatility_score)

----------------------------------------------------------------------------
(* C12 *)

\* C12: every row that clean_data lets through has open > 0, and no
\* daily_return derived from such rows is a division by zero.
C12_OpenPositiveAfterClean ==
    /\ pc[Worker] = "cleaned"
       => \A i \in 1 .. Len(df[Worker]) : df[Worker][i].open > 0
    /\ Derived
       => \A i \in 1 .. Len(df[Worker]) : df[Worker][i].daily_return[2] # 0

----------------------------------------------------------------------------
(* C13 *)

\* A refresh ran to its end and its fetch, the first call it made, returned
\* no bars.
RefreshOfNothing ==
    /\ RefreshEnded
    /\ Len(returned.calls) >= 1
    /\ returned.calls[1] = [ call |-> "fetch_stock_data", rows |-> 0 ]

\* What the store now holds for the symbol of the call that returned, as
\* load_stock_data hands it out.
NowCached == ToDatetime(get_all_stock_data(stock_data, returned.symbol))

\* C13 as stated: a refresh whose fetch returned nothing calls neither
\* clearRows nor appendRows and returns the series the cache held, the
\* empty series when the cache held none.
C13_EmptyFetchRefreshOnlyReads ==
    RefreshOfNothing
    => /\ ~Made(returned.calls, "clear_stock_data")
       /\ ~Made(returned.calls, "save_stock_data")
       /\ returned.data = NowCached
       /\ MadeWith(returned.calls, "get_all_stock_data", 0)
          => returned.data = <<>>

\* C13, amended: a refresh whose fetch returned nothing never calls
\* clearRows and reads the cache next.  When the cache holds rows it calls
\* nothing else: it returns the cached series and the rows stay as they
\* were.  When the cache is empty it fetches a second time and calls
\* appendRows exactly when that fetch leaves rows after cleaning; it returns
\* those rows, now the cache of the symbol, or the empty series.
C13_EmptyFetchRefreshReadsCache ==
    RefreshOfNothing
    => /\ ~Made(returned.calls, "clear_stock_data")
       /\ returned.status \in {"ok", "no_data"}
       /\ Len(returned.calls) >= 2
       /\ returned.calls[2].call = "get_all_stock_data"
       /\ returned.data = NowCached
       /\ IF returned.calls[2].rows > 0
          THEN /\ Len(returned.calls) = 2
               /\ Len(returned.data) = returned.calls[2].rows
          ELSE /\ Len(returned.calls) >= 3
               /\ returned.calls[3].call = "fetch_stock_data"
               /\ Made(returned.calls, "save_stock_data")
                    <=> returned.data # <<>>

\* A refresh whose fetch returned nothing gave back the rows the cache held.
C13_Witness ==
    /\ RefreshOfNothing
    /\ Len(returned.calls) = 2
    /\ returned.calls[2].call = "get_all_stock_data"
    /\ returned.calls[2].rows >= 1
    /\ returned.status = "ok"
    /\ returned.data = NowCached

====
